---- MODULE Spec2Model ----
(***************************************************************************)
(* BFI-2-J questionnaire (src/src/app.tsx): the item catalog, the          *)
(* answering flow of the App component (stage, currentIndex, responses)    *)
(* and the score summary derived from the responses.                       *)
(*                                                                         *)
(* An average is kept as the exact fraction num/den instead of a float.    *)
(* A missing entry of responses (undefined in the source) reads as 0,      *)
(* which like undefined is falsy; the ratings 1..5 are all truthy.         *)
(* The text of an item and the label of a score entry play no part in the  *)
(* flow or in the scores and are left out of the records.                  *)
(* The Japanese labels of the tables are written in Latin letters.         *)
(* restarted and nextCount record history only; no handler reads them.     *)
(***************************************************************************)
EXTENDS Integers, Sequences, FiniteSets, TLC

VARIABLES questionnaireItems, stage, currentIndex, responses, restarted,
          rawItems, loadState, nextCount

\* rawItems is the item file; loadState tells whether normalizeItems has run
\* ("pending"), has returned ("loaded") or has thrown ("failed").
\* restarted is a history variable: a restart has happened in this run of the page.
\* nextCount is a history variable: the next steps that moved on since the last
\* start, counted up to totalItems.
vars == <<questionnaireItems, stage, currentIndex, responses, restarted,
          rawItems, loadState, nextCount>>

\* what the handlers of App never touch
outside == <<rawItems, loadState, nextCount>>

(***************************************************************************)
(* Bounds of the model.                                                    *)
(***************************************************************************)
\* longest catalog of the flow specification
MaxItems == 3
\* item numbers of the flow specification are drawn from 1..MaxNumber
MaxNumber == 3
\* longest catalog of the scoring specification
MaxScoreItems == 2
\* longest catalog of the progress specification
MaxProgressItems == 2
\* longest item file of the loading specification
MaxRawItems == 2

(***************************************************************************)
(* The fixed tables.                                                       *)
(***************************************************************************)
domainDefinitions ==
    << "extraversion", "agreeableness", "conscientiousness",
       "negativeEmotionality", "openness" >>

facetDefinitions ==
    << "sociability", "assertiveness", "energyLevel",
       "compassion", "respectfulness", "trust",
       "organization", "productivity", "responsibility",
       "anxiety", "depression", "emotionalVolatility",
       "intellectualCuriosity", "aestheticSensitivity", "creativeImagination" >>

\* the labels of the domains, in the order of domainDefinitions
domainLabels ==
    << "gaikousei", "kyouchousei", "kinbensei", "hiteitekijoudousei", "kaihousei" >>

\* the labels of the facets, in the order of facetDefinitions
facetLabels ==
    << "shakousei", "jikoshuchousei", "katsuryoku",
       "omoiyari", "keii", "shinyou",
       "chitsujo", "seisansei", "sekininkan",
       "fuan", "yokuutsu", "joucho_fuanteisei",
       "chiteki_koukishin", "biteki_kansei", "souzouteki_souzouryoku" >>

DomainId == { domainDefinitions[i] : i \in 1..Len(domainDefinitions) }

FacetId == { facetDefinitions[i] : i \in 1..Len(facetDefinitions) }

RATING_MIN == 1

RATING_MAX == 5

REVERSE_BASE == 6

Rating == RATING_MIN..RATING_MAX

\* the values of the radio buttons, in order
ratingEntries == [ offset \in 1..(RATING_MAX - RATING_MIN + 1) |-> RATING_MIN + (offset - 1) ]

\* the map from label to id, one entry per definition
buildIdByLabelMap(definitions, labels) ==
    [ label \in { labels[i] : i \in 1..Len(labels) } |->
        definitions[CHOOSE i \in 1..Len(labels) : labels[i] = label] ]

domainIdByLabel == buildIdByLabelMap(domainDefinitions, domainLabels)

facetIdByLabel == buildIdByLabelMap(facetDefinitions, facetLabels)

\* the map is a plain object ({}): a key it does not hold itself is looked
\* up on Object.prototype, whose members are functions and objects
ObjectPrototypeKeys ==
    { "constructor", "toString", "toLocaleString", "valueOf", "hasOwnProperty",
      "isPrototypeOf", "propertyIsEnumerable", "__proto__" }

Undefined == "undefined"

\* map[key]
GetProperty(map, key) ==
    IF key \in DOMAIN map THEN map[key]
    ELSE IF key \in ObjectPrototypeKeys THEN "Object.prototype." \o key
    ELSE Undefined

RECURSIVE NormalizeLoop(_, _)
\* normalizeItems after the first k raw items: the list so far, or the throw
NormalizeLoop(rawList, k) ==
    IF k = 0
    THEN [ thrown |-> "", normalized |-> << >> ]
    ELSE LET before   == NormalizeLoop(rawList, k - 1)
             rawItem  == rawList[k]
             domainId == GetProperty(domainIdByLabel, rawItem.domain)
             facetId  == GetProperty(facetIdByLabel, rawItem.facet)
         IN  IF before.thrown # "" THEN before
             ELSE IF domainId = Undefined
             THEN [ thrown |-> "Unknown domain label", normalized |-> << >> ]
             ELSE IF facetId = Undefined
             THEN [ thrown |-> "Unknown facet label", normalized |-> << >> ]
             ELSE [ thrown |-> "",
                    normalized |->
                        Append(before.normalized,
                               [ number   |-> rawItem.number,
                                 domainId |-> domainId,
                                 facetId  |-> facetId,
                                 reverse  |-> rawItem.reverse ]) ]

normalizeItems(rawList) == NormalizeLoop(rawList, Len(rawList))

\* a map with one zero entry per definition
buildZeroMap(definitions) ==
    [ id \in { definitions[i] : i \in 1..Len(definitions) } |-> 0 ]

createZeroDomainMap == buildZeroMap(domainDefinitions)

createZeroFacetMap == buildZeroMap(facetDefinitions)

createInitialTotals == [ domains |-> createZeroDomainMap, facets |-> createZeroFacetMap ]

\* calculateAverage dividing without the test for a zero count
calculateAverage_NoZeroTest(sum, count) == [ num |-> sum, den |-> count ]

\* count === 0 ? 0 : sum / count, as an exact fraction
calculateAverage(sum, count) ==
    IF count = 0 THEN [ num |-> 0, den |-> 1 ] ELSE [ num |-> sum, den |-> count ]

\* reverseScore returning the rating as it is
reverseScore_Unchanged(value) == value

\* reverseScore subtracting from RATING_MAX instead of REVERSE_BASE
reverseScore_FromMax(value) == RATING_MAX - value

reverseScore(value) == REVERSE_BASE - value

(***************************************************************************)
(* Item statistics, computed once from the catalog.                        *)
(***************************************************************************)
RECURSIVE ItemStatsLoop(_, _)
\* the accumulators after the first k items of the loop of createItemStats
ItemStatsLoop(items, k) ==
    IF k = 0
    THEN [ domainCounts |-> createZeroDomainMap, facetCounts |-> createZeroFacetMap ]
    ELSE LET acc  == ItemStatsLoop(items, k - 1)
             item == items[k]
         IN  [ domainCounts |->
                   [ acc.domainCounts EXCEPT ![item.domainId] = @ + 1 ],
               facetCounts |->
                   [ acc.facetCounts EXCEPT ![item.facetId] = @ + 1 ] ]

createItemStats(items) == ItemStatsLoop(items, Len(items))

totalItems == Len(questionnaireItems)

domainCounts == createItemStats(questionnaireItems).domainCounts

facetCounts == createItemStats(questionnaireItems).facetCounts

(***************************************************************************)
(* Derived values of one render of App.                                    *)
(***************************************************************************)
\* responses[number]: the stored rating, 0 when there is none
Lookup(resp, number) == IF number \in DOMAIN resp THEN resp[number] ELSE 0

\* questionnaireItems[currentIndex] is defined
HasCurrentItem == currentIndex + 1 \in 1..totalItems

currentItem == questionnaireItems[currentIndex + 1]

answeredCount == Cardinality(DOMAIN responses)

allAnswered == answeredCount = totalItems

Null == [ null |-> TRUE ]

RECURSIVE TotalsLoop_NoReverse(_, _, _)
\* the loop of result adding the rating as selected, reverse-keyed or not
TotalsLoop_NoReverse(items, resp, k) ==
    IF k = 0
    THEN createInitialTotals
    ELSE LET totals   == TotalsLoop_NoReverse(items, resp, k - 1)
             item     == items[k]
             selected == Lookup(resp, item.number)
         IN  IF selected = 0
             THEN totals
             ELSE [ domains |-> [ totals.domains EXCEPT ![item.domainId] = @ + selected ],
                    facets  |-> [ totals.facets EXCEPT ![item.facetId] = @ + selected ] ]

RECURSIVE TotalsLoop_DomainRaw(_, _, _)
\* the loop of result reversing the score for the facet total only
TotalsLoop_DomainRaw(items, resp, k) ==
    IF k = 0
    THEN createInitialTotals
    ELSE LET totals   == TotalsLoop_DomainRaw(items, resp, k - 1)
             item     == items[k]
             selected == Lookup(resp, item.number)
             score    == IF item.reverse THEN reverseScore(selected) ELSE selected
         IN  IF selected = 0
             THEN totals
             ELSE [ domains |-> [ totals.domains EXCEPT ![item.domainId] = @ + selected ],
                    facets  |-> [ totals.facets EXCEPT ![item.facetId] = @ + score ] ]

RECURSIVE TotalsLoop(_, _, _)
\* the totals after the first k items of the loop of result
TotalsLoop(items, resp, k) ==
    IF k = 0
    THEN createInitialTotals
    ELSE LET totals   == TotalsLoop(items, resp, k - 1)
             item     == items[k]
             selected == Lookup(resp, item.number)
             score    == IF item.reverse THEN reverseScore(selected) ELSE selected
         IN  IF selected = 0
             THEN totals
             ELSE [ domains |-> [ totals.domains EXCEPT ![item.domainId] = @ + score ],
                    facets  |-> [ totals.facets EXCEPT ![item.facetId] = @ + score ] ]

\* the summary with its entries listed by falling score instead of table order
ScoreSummary_ByScore(items, resp) ==
    LET totals == TotalsLoop(items, resp, Len(items))
        stats  == createItemStats(items)
        Sorted(definitions, sums, counts) ==
            LET n       == Len(definitions)
                val(i)  == calculateAverage(sums[definitions[i]], counts[definitions[i]])
                Above(i, j) ==
                    \/ val(i).num * val(j).den > val(j).num * val(i).den
                    \/ val(i).num * val(j).den = val(j).num * val(i).den /\ i < j
                rank(i) == Cardinality({ j \in 1..n : Above(j, i) }) + 1
            IN  [ k \in 1..n |->
                    LET i == CHOOSE x \in 1..n : rank(x) = k
                    IN  [ id |-> definitions[i], value |-> val(i) ] ]
    IN  [ domains |-> Sorted(domainDefinitions, totals.domains, stats.domainCounts),
          facets  |-> Sorted(facetDefinitions, totals.facets, stats.facetCounts) ]

\* the body of the useMemo, past the allAnswered test
ScoreSummary(items, resp) ==
    LET totals == TotalsLoop(items, resp, Len(items))
        stats  == createItemStats(items)
    IN  [ domains |->
              [ i \in 1..Len(domainDefinitions) |->
                  [ id    |-> domainDefinitions[i],
                    value |-> calculateAverage(totals.domains[domainDefinitions[i]],
                                               stats.domainCounts[domainDefinitions[i]]) ] ],
          facets |->
              [ i \in 1..Len(facetDefinitions) |->
                  [ id    |-> facetDefinitions[i],
                    value |-> calculateAverage(totals.facets[facetDefinitions[i]],
                                               stats.facetCounts[facetDefinitions[i]]) ] ] ]

\* result without the allAnswered test
result_NoCompletenessTest == ScoreSummary(questionnaireItems, responses)

result == IF ~allAnswered THEN Null ELSE ScoreSummary(questionnaireItems, responses)

\* which of the four returns of App renders: only its controls can be used
View ==
    IF stage = "intro" THEN "intro"
    ELSE IF stage = "result" /\ result # Null THEN "result"
    ELSE IF ~HasCurrentItem THEN "none"
    ELSE "question"

(***************************************************************************)
(* The handlers, each behind the control that calls it.                    *)
(***************************************************************************)
handleStart ==
    /\ View = "intro"
    /\ stage' = "question"
    /\ UNCHANGED <<questionnaireItems, currentIndex, responses>>

\* handleSelect storing { [number]: rating } without the earlier entries
handleSelect_DropsOthers(rating) ==
    /\ View = "question"
    /\ IF ~HasCurrentItem
       THEN UNCHANGED responses
       ELSE responses' = [ n \in {currentItem.number} |-> rating ]
    /\ UNCHANGED <<questionnaireItems, stage, currentIndex>>

\* handleSelect storing the rating under the current index, not the item number
handleSelect_KeyByIndex(rating) ==
    /\ View = "question"
    /\ IF ~HasCurrentItem
       THEN UNCHANGED responses
       ELSE responses' =
                [ n \in DOMAIN responses \cup {currentIndex} |->
                    IF n = currentIndex THEN rating ELSE responses[n] ]
    /\ UNCHANGED <<questionnaireItems, stage, currentIndex>>

handleSelect(rating) ==
    /\ View = "question"
    /\ IF ~HasCurrentItem
       THEN UNCHANGED responses
       ELSE responses' =
                [ n \in DOMAIN responses \cup {currentItem.number} |->
                    IF n = currentItem.number THEN rating ELSE responses[n] ]
    /\ UNCHANGED <<questionnaireItems, stage, currentIndex>>

\* handleNext without the test for a recorded rating
handleNext_NoRatingGuard ==
    /\ View = "question"
    /\ IF ~HasCurrentItem
       THEN UNCHANGED <<stage, currentIndex>>
       ELSE IF currentIndex + 1 >= totalItems
       THEN stage' = "result" /\ UNCHANGED currentIndex
       ELSE currentIndex' = currentIndex + 1 /\ UNCHANGED stage
    /\ UNCHANGED <<questionnaireItems, responses>>

\* handleNext comparing nextIndex > totalItems
handleNext_LateResult ==
    /\ View = "question"
    /\ IF ~HasCurrentItem
       THEN UNCHANGED <<stage, currentIndex>>
       ELSE IF Lookup(responses, currentItem.number) = 0
       THEN UNCHANGED <<stage, currentIndex>>
       ELSE IF currentIndex + 1 > totalItems
       THEN stage' = "result" /\ UNCHANGED currentIndex
       ELSE currentIndex' = currentIndex + 1 /\ UNCHANGED stage
    /\ UNCHANGED <<questionnaireItems, responses>>

\* handleNext setting the index before the test for the last item
handleNext_IndexPastEnd ==
    /\ View = "question"
    /\ IF ~HasCurrentItem
       THEN UNCHANGED <<stage, currentIndex>>
       ELSE IF Lookup(responses, currentItem.number) = 0
       THEN UNCHANGED <<stage, currentIndex>>
       ELSE /\ currentIndex' = currentIndex + 1
            /\ IF currentIndex + 1 >= totalItems
               THEN stage' = "result"
               ELSE UNCHANGED stage
    /\ UNCHANGED <<questionnaireItems, responses>>

\* handleNext going to result one question early (nextIndex >= totalItems - 1)
handleNext_ResultEarly ==
    /\ View = "question"
    /\ IF ~HasCurrentItem
       THEN UNCHANGED <<stage, currentIndex>>
       ELSE IF Lookup(responses, currentItem.number) = 0
       THEN UNCHANGED <<stage, currentIndex>>
       ELSE IF currentIndex + 1 >= totalItems - 1
       THEN stage' = "result" /\ UNCHANGED currentIndex
       ELSE currentIndex' = currentIndex + 1 /\ UNCHANGED stage
    /\ UNCHANGED <<questionnaireItems, responses>>

handleNext ==
    /\ View = "question"
    /\ IF ~HasCurrentItem
       THEN UNCHANGED <<stage, currentIndex>>
       ELSE IF Lookup(responses, currentItem.number) = 0
       THEN UNCHANGED <<stage, currentIndex>>
       ELSE IF currentIndex + 1 >= totalItems
       THEN stage' = "result" /\ UNCHANGED currentIndex
       ELSE currentIndex' = currentIndex + 1 /\ UNCHANGED stage
    /\ UNCHANGED <<questionnaireItems, responses>>

\* handlePrevious dropping the rating of the question it leaves
handlePrevious_ClearsCurrent ==
    /\ View = "question"
    /\ IF currentIndex = 0
       THEN UNCHANGED <<currentIndex, responses>>
       ELSE /\ currentIndex' = currentIndex - 1
            /\ responses' = [ n \in DOMAIN responses \ {currentItem.number} |-> responses[n] ]
    /\ UNCHANGED <<questionnaireItems, stage>>

\* handlePrevious without its tests for the first question
handlePrevious_NoFloor ==
    /\ View = "question"
    /\ currentIndex' = currentIndex - 1
    /\ UNCHANGED <<questionnaireItems, stage, responses>>

handlePrevious ==
    /\ View = "question"
    /\ IF currentIndex = 0
       THEN UNCHANGED currentIndex
       ELSE IF currentIndex - 1 < 0
       THEN UNCHANGED currentIndex
       ELSE currentIndex' = currentIndex - 1
    /\ UNCHANGED <<questionnaireItems, stage, responses>>

\* handleRestart without setResponses({})
handleRestart_KeepsResponses ==
    /\ View = "result"
    /\ stage' = "intro"
    /\ currentIndex' = 0
    /\ UNCHANGED <<questionnaireItems, responses>>

\* handleRestart without setCurrentIndex(0)
handleRestart_KeepsIndex ==
    /\ View = "result"
    /\ stage' = "intro"
    /\ responses' = << >>
    /\ UNCHANGED <<questionnaireItems, currentIndex>>

handleRestart ==
    /\ View = "result"
    /\ stage' = "intro"
    /\ currentIndex' = 0
    /\ responses' = << >>
    /\ UNCHANGED questionnaireItems

Start == handleStart /\ UNCHANGED restarted /\ UNCHANGED outside

Select ==
    /\ \E offset \in DOMAIN ratingEntries : handleSelect(ratingEntries[offset])
    /\ UNCHANGED restarted
    /\ UNCHANGED outside

GoNext == handleNext /\ UNCHANGED restarted /\ UNCHANGED outside

GoPrevious == handlePrevious /\ UNCHANGED restarted /\ UNCHANGED outside

Restart == handleRestart /\ restarted' = TRUE /\ UNCHANGED outside

Next ==
    \/ Start
    \/ Select
    \/ GoNext
    \/ GoPrevious
    \/ Restart

\* one pass through the questionnaire, without going back
NextScore ==
    \/ Start
    \/ Select
    \/ GoNext

(***************************************************************************)
(* Catalogs.  bfi_items.json is not part of the sources at hand; a catalog *)
(* is any list normalizeItems accepts.                                     *)
(***************************************************************************)
SeqsUpTo(S, n) == UNION { [ 1..k -> S ] : k \in 0..n }

\* a stand-in for entry n of the item file: facets in table order, three
\* facets to a domain, every second item reverse-keyed
PoolItem(n) ==
    [ number   |-> n,
      domainId |-> domainDefinitions[(((n - 1) \div 3) % Len(domainDefinitions)) + 1],
      facetId  |-> facetDefinitions[((n - 1) % Len(facetDefinitions)) + 1],
      reverse  |-> n % 2 = 0 ]

\* flow: any order and any repetition of the pool's items
FlowCatalogs == SeqsUpTo({ PoolItem(n) : n \in 1..MaxNumber }, MaxItems)

\* the domain and facet tags of the scoring catalogs: two facets of one
\* domain, a facet of a second domain, and a facet tagged with a domain
\* that is not its own (normalizeItems accepts any pair of known labels)
ScoreCategories ==
    { <<"extraversion", "sociability">>, <<"extraversion", "assertiveness">>,
      <<"agreeableness", "compassion">>, <<"extraversion", "compassion">> }

\* scoring: items numbered 1..k in order, any of the tags, either key
ScoreCatalogs ==
    UNION { { [ i \in 1..k |->
                  [ number   |-> i,
                    domainId |-> tags[i][1],
                    facetId  |-> tags[i][2],
                    reverse  |-> keys[i] ] ] :
              tags \in [ 1..k -> ScoreCategories ], keys \in [ 1..k -> BOOLEAN ] } :
            k \in 0..MaxScoreItems }

InitApp ==
    /\ stage = "intro"
    /\ currentIndex = 0
    /\ responses = << >>
    /\ restarted = FALSE
    /\ nextCount = 0

\* the label the tables give for an id
LabelOf(definitions, labels, id) ==
    labels[CHOOSE i \in 1..Len(definitions) : definitions[i] = id]

\* the item file that normalizeItems turns into the catalog items
RawOf(items) ==
    [ i \in 1..Len(items) |->
        [ number  |-> items[i].number,
          domain  |-> LabelOf(domainDefinitions, domainLabels, items[i].domainId),
          facet   |-> LabelOf(facetDefinitions, facetLabels, items[i].facetId),
          reverse |-> items[i].reverse ] ]

\* the module has loaded the catalog
Loaded(catalogs) ==
    /\ questionnaireItems \in catalogs
    /\ rawItems = RawOf(questionnaireItems)
    /\ loadState = "loaded"

Init == Loaded(FlowCatalogs) /\ InitApp

InitScore == Loaded(ScoreCatalogs) /\ InitApp

\* progress: as for the flow, shorter
ProgressCatalogs == SeqsUpTo({ PoolItem(n) : n \in 1..MaxNumber }, MaxProgressItems)

InitProgress == Loaded(ProgressCatalogs) /\ InitApp

(***************************************************************************)
(* Loading: questionnaireItems = normalizeItems(rawItems) as the module    *)
(* is evaluated; App is only defined, and rendered, when it returns.       *)
(***************************************************************************)
\* labels of the item files: a known one, the same in another case, an
\* unknown one, and names of members of Object.prototype
RawDomainLabels == { "gaikousei", "Gaikousei", "sonzaishinai", "constructor" }

RawFacetLabels == { "shakousei", "sonzaishinai", "toString" }

RawLists ==
    UNION { { [ i \in 1..k |->
                  [ number  |-> i,
                    domain  |-> domains[i],
                    facet   |-> facets[i],
                    reverse |-> i % 2 = 0 ] ] :
              domains \in [ 1..k -> RawDomainLabels ],
              facets \in [ 1..k -> RawFacetLabels ] } :
            k \in 0..MaxRawItems }

InitLoad ==
    /\ rawItems \in RawLists
    /\ loadState = "pending"
    /\ questionnaireItems = << >>
    /\ InitApp

Load ==
    /\ loadState = "pending"
    /\ LET outcome == normalizeItems(rawItems)
       IN  IF outcome.thrown # ""
           THEN loadState' = "failed" /\ UNCHANGED questionnaireItems
           ELSE loadState' = "loaded" /\ questionnaireItems' = outcome.normalized
    /\ UNCHANGED <<stage, currentIndex, responses, restarted, rawItems, nextCount>>

\* the page once the module has loaded
NextLoad ==
    \/ Load
    \/ loadState = "loaded" /\ Start
    \/ loadState = "loaded" /\ Select
    \/ loadState = "loaded" /\ GoNext
    \/ loadState = "loaded" /\ GoPrevious
    \/ loadState = "loaded" /\ Restart

Spec == Init /\ [][Next]_vars

(***************************************************************************)
(* The flow with the next steps counted, and with the fairness the claim   *)
(* of progress assumes of the user: an unanswered question shown gets an   *)
(* answer, and a next button that stays usable gets pressed.               *)
(***************************************************************************)
CountedStart ==
    /\ handleStart
    /\ nextCount' = 0
    /\ UNCHANGED <<restarted, rawItems, loadState>>

\* a rating for the question shown, which has none yet
SelectUnanswered ==
    /\ HasCurrentItem
    /\ Lookup(responses, currentItem.number) = 0
    /\ Select

\* a new rating for the question shown
SelectAgain ==
    /\ HasCurrentItem
    /\ Lookup(responses, currentItem.number) # 0
    /\ Select

CountedNext ==
    /\ handleNext
    /\ nextCount' =
           IF (currentIndex' # currentIndex \/ stage' # stage) /\ nextCount < totalItems
           THEN nextCount + 1
           ELSE nextCount
    /\ UNCHANGED <<restarted, rawItems, loadState>>

CountedRestart ==
    /\ handleRestart
    /\ nextCount' = 0
    /\ UNCHANGED <<restarted, rawItems, loadState>>

NextProgress ==
    \/ CountedStart
    \/ SelectUnanswered
    \/ SelectAgain
    \/ CountedNext
    \/ GoPrevious
    \/ CountedRestart

SpecProgress ==
    /\ InitProgress
    /\ [][NextProgress]_vars
    /\ WF_vars(SelectUnanswered)
    /\ WF_vars(CountedNext)

SpecLoad == InitLoad /\ [][NextLoad]_vars

SpecScore == InitScore /\ [][NextScore]_vars

(***************************************************************************)
(* Vocabulary of the properties.                                           *)
(***************************************************************************)
ItemNumbers == { questionnaireItems[i].number : i \in 1..totalItems }

UniqueNumbers ==
    \A i, j \in 1..totalItems :
        questionnaireItems[i].number = questionnaireItems[j].number => i = j

\* every item number of the catalog has a recorded rating
Complete == \A n \in ItemNumbers : Lookup(responses, n) # 0

\* the rating shown as selected on the question page
selectedRating == Lookup(responses, currentItem.number)

AtQuestion == stage = "question" /\ HasCurrentItem

(***************************************************************************)
(* The answering flow.                                                     *)
(***************************************************************************)
\* C1: with unique item numbers, whenever the stage is result every item
\* number of the catalog has a recorded rating and the score summary is
\* available (result is not null).
C1_CompleteAtResult ==
    (UniqueNumbers /\ stage = "result") => (Complete /\ result # Null)

C1_Witness ==
    /\ UniqueNumbers
    /\ totalItems >= 2
    /\ stage = "result"
    /\ result # Null

\* C2: a next at question(i) whose item has a rating goes to question(i+1)
\* when i+1 < totalItems and to result when i+1 = totalItems; and no step at
\* all leaves question(i) forwards while item i has no rating.
C2_NextAdvances ==
    [][ /\ (handleNext /\ AtQuestion /\ selectedRating # 0) =>
              /\ currentIndex + 1 < totalItems =>
                     (stage' = "question" /\ currentIndex' = currentIndex + 1)
              /\ currentIndex + 1 = totalItems =>
                     (stage' = "result" /\ currentIndex' = currentIndex)
        /\ (AtQuestion /\ selectedRating = 0) =>
              (stage' = "question" /\ currentIndex' <= currentIndex) ]_vars

C2_Witness ==
    /\ totalItems = 3
    /\ UniqueNumbers
    /\ stage = "result"
    /\ currentIndex = 2
    /\ ~restarted

\* C3: select(rating) at question(i) stores rating under the number of item
\* i, replacing what was there, and changes neither the stage, the current
\* index, nor the rating stored under any other item number.
C3_SelectFrame ==
    [][ \A rating \in Rating :
          (handleSelect(rating) /\ AtQuestion) =>
              /\ Lookup(responses', currentItem.number) = rating
              /\ stage' = stage
              /\ currentIndex' = currentIndex
              /\ \A n \in (ItemNumbers \cup DOMAIN responses \cup DOMAIN responses') :
                     n # currentItem.number =>
                         Lookup(responses', n) = Lookup(responses, n) ]_vars

C3_Witness ==
    /\ UniqueNumbers
    /\ stage = "question"
    /\ currentIndex = 1
    /\ selectedRating = 2
    /\ Lookup(responses, questionnaireItems[1].number) = 4

\* C4: next and previous leave the response set as it is, so an item's
\* rating is still there, and shown as selected, when its question comes up
\* again, and no other rating has changed.
C4_NavigationKeepsResponses ==
    [][ (handleNext \/ handlePrevious) => responses' = responses ]_vars

C4_Witness ==
    /\ UniqueNumbers
    /\ totalItems >= 2
    /\ stage = "question"
    /\ currentIndex = 0
    /\ selectedRating = 5
    /\ Lookup(responses, questionnaireItems[2].number) = 1

\* C5: a next at a question without a rating and a previous at question(0)
\* change nothing: stage, index and responses stay as they are.
C5_MisuseIsNoOp ==
    [][ /\ (handleNext /\ AtQuestion /\ selectedRating = 0) =>
              UNCHANGED <<stage, currentIndex, responses>>
        /\ (handlePrevious /\ AtQuestion /\ currentIndex = 0) =>
              UNCHANGED <<stage, currentIndex, responses>> ]_vars

C5_Witness ==
    /\ AtQuestion
    /\ totalItems >= 2
    /\ currentIndex = 0
    /\ selectedRating = 0
    /\ ENABLED handleNext
    /\ ENABLED handlePrevious

\* C6: restart is taken from result, goes to intro and empties the response
\* set; the stage is intro only with an empty response set, so a later run
\* starts without any earlier rating.
C6_RestartDiscards ==
    [][ /\ handleRestart =>
              (stage = "result" /\ stage' = "intro" /\ responses' = << >>)
        /\ stage' = "intro" => responses' = << >> ]_vars

C6_Witness ==
    /\ restarted
    /\ totalItems >= 2
    /\ stage = "question"
    /\ currentIndex = 0
    /\ DOMAIN responses = { currentItem.number }

\* C7: a step taken while the stage is intro is a start (the stage becomes
\* question, the responses stay), and after every start, also one that
\* follows a restart, the flow is at question index 0.
C7_IntroOnlyStart ==
    [][ /\ stage = "intro" =>
              (stage' = "question" /\ currentIndex' = 0 /\ responses' = responses)
        /\ handleStart => (stage' = "question" /\ currentIndex' = 0) ]_vars

C7_Witness ==
    /\ restarted
    /\ totalItems >= 2
    /\ stage = "question"
    /\ currentIndex = 0
    /\ responses = << >>

(***************************************************************************)
(* The scores.                                                             *)
(***************************************************************************)
\* fractions a and b are the same number
SameValue(a, b) == a.num * b.den = b.num * a.den

Fraction(n, d) == [ num |-> n, den |-> d ]

\* the effective score of the item at catalog index i
EffectiveAt(i) ==
    LET item   == questionnaireItems[i]
        rating == Lookup(responses, item.number)
    IN  IF item.reverse THEN 6 - rating ELSE rating

RECURSIVE SumEffective(_)
\* the sum of the effective scores over a set of catalog indices
SumEffective(S) ==
    IF S = {}
    THEN 0
    ELSE LET i == CHOOSE x \in S : TRUE
         IN  EffectiveAt(i) + SumEffective(S \ {i})

DomainItems(d) == { i \in 1..totalItems : questionnaireItems[i].domainId = d }

FacetItems(f) == { i \in 1..totalItems : questionnaireItems[i].facetId = f }

\* the value a list of score entries gives for the category id
ValueOf(entries, id) ==
    entries[CHOOSE k \in DOMAIN entries : entries[k].id = id].value

\* the domain a facet belongs to: three facets to a domain, in table order
FacetDomain(f) ==
    LET k == CHOOSE x \in 1..Len(facetDefinitions) : facetDefinitions[x] = f
    IN  domainDefinitions[((k - 1) \div 3) + 1]

\* the catalog indices of the items of the three facets of domain d
ItemsOfFacetsOf(d) ==
    { i \in 1..totalItems : FacetDomain(questionnaireItems[i].facetId) = d }

\* every item's facet is one of the three facets of the item's domain
FacetsMatchDomains ==
    \A i \in 1..totalItems :
        FacetDomain(questionnaireItems[i].facetId) = questionnaireItems[i].domainId

ExampleCatalog ==
    << [ number |-> 1, domainId |-> "extraversion", facetId |-> "sociability",
         reverse |-> FALSE ],
       [ number |-> 2, domainId |-> "extraversion", facetId |-> "sociability",
         reverse |-> TRUE ] >>

ExampleResponses == (1 :> 4) @@ (2 :> 2)

\* the mean of the effective scores over a non-empty set of catalog indices
MeanOver(S) == Fraction(SumEffective(S), Cardinality(S))

\* C8: for every catalog and complete response set, the score of each domain
\* and facet with at least one item is the sum of the effective scores of
\* its items (6 - rating for a reverse item, else the rating) divided by the
\* number of its items; the two-item example gives 4 for extraversion and
\* for sociability.
C8_CategoryMeans ==
    LET summary == result
    IN  (Complete /\ summary # Null) =>
            /\ \A d \in DomainId :
                   DomainItems(d) # {} =>
                       SameValue(ValueOf(summary.domains, d), MeanOver(DomainItems(d)))
            /\ \A f \in FacetId :
                   FacetItems(f) # {} =>
                       SameValue(ValueOf(summary.facets, f), MeanOver(FacetItems(f)))
            /\ (questionnaireItems = ExampleCatalog /\ responses = ExampleResponses) =>
                   /\ SameValue(ValueOf(summary.domains, "extraversion"), Fraction(4, 1))
                   /\ SameValue(ValueOf(summary.facets, "sociability"), Fraction(4, 1))

C8_Witness ==
    /\ questionnaireItems = ExampleCatalog
    /\ responses = ExampleResponses
    /\ stage = "result"
    /\ result # Null

\* C9 as claimed: for a fully answered response set the items of a domain
\* are exactly the items of its three facets, and the domain's average is
\* the mean of their effective scores.
C9_DomainIsItsFacets ==
    LET summary == result
    IN  (Complete /\ summary # Null) =>
            \A d \in DomainId :
                /\ DomainItems(d) = ItemsOfFacetsOf(d)
                /\ ItemsOfFacetsOf(d) # {} =>
                       SameValue(ValueOf(summary.domains, d), MeanOver(ItemsOfFacetsOf(d)))

\* C9 as amended: for a fully answered response set a domain's average is
\* the mean of the effective scores of the items tagged with that domain;
\* when every item's facet is one of its own domain's three facets, these
\* are exactly the items of the domain's three facets.
C9_DomainMeanOfTaggedItems ==
    LET summary == result
    IN  (Complete /\ summary # Null) =>
            \A d \in DomainId :
                /\ DomainItems(d) # {} =>
                       SameValue(ValueOf(summary.domains, d), MeanOver(DomainItems(d)))
                /\ FacetsMatchDomains =>
                       /\ DomainItems(d) = ItemsOfFacetsOf(d)
                       /\ ItemsOfFacetsOf(d) # {} =>
                              SameValue(ValueOf(summary.domains, d),
                                        MeanOver(ItemsOfFacetsOf(d)))

C9_Witness ==
    /\ FacetsMatchDomains
    /\ totalItems = 2
    /\ questionnaireItems[1].facetId = "sociability"
    /\ questionnaireItems[2].facetId = "assertiveness"
    /\ questionnaireItems[2].reverse
    /\ Complete
    /\ result # Null
    /\ SameValue(ValueOf(result.domains, "extraversion"), Fraction(7, 2))

\* the fraction v lies in [1,5] and has the item count as its denominator
InRange(v, count) == v.den = count /\ 1 * v.den <= v.num /\ v.num <= 5 * v.den

\* C10: for a complete response set every domain and facet with at least
\* one item has an average in [1,5]: its summed effective scores lie
\* between its item count and 5 times its item count.
C10_AverageInRange ==
    LET summary == result
        stats   == createItemStats(questionnaireItems)
    IN  (Complete /\ summary # Null) =>
            /\ \A d \in DomainId :
                   stats.domainCounts[d] > 0 =>
                       InRange(ValueOf(summary.domains, d), stats.domainCounts[d])
            /\ \A f \in FacetId :
                   stats.facetCounts[f] > 0 =>
                       InRange(ValueOf(summary.facets, f), stats.facetCounts[f])

C10_Witness ==
    /\ totalItems = 2
    /\ Complete
    /\ result # Null
    /\ questionnaireItems[1].reverse
    /\ questionnaireItems[1].facetId # questionnaireItems[2].facetId
    /\ SameValue(ValueOf(result.facets, questionnaireItems[1].facetId), Fraction(1, 1))
    /\ SameValue(ValueOf(result.facets, questionnaireItems[2].facetId), Fraction(5, 1))

\* the catalog indices whose item number has a recorded rating
Answered(S) == { i \in S : Lookup(responses, questionnaireItems[i].number) # 0 }

\* C11: a domain or facet without items in the catalog scores exactly 0,
\* with no division by zero, whatever the response set; checked on the
\* summary of the loop for every response set a run passes through.
C11_EmptyCategoryScoresZero ==
    LET summary == ScoreSummary(questionnaireItems, responses)
    IN  /\ \A d \in DomainId :
               DomainItems(d) = {} =>
                   /\ ValueOf(summary.domains, d).den # 0
                   /\ SameValue(ValueOf(summary.domains, d), Fraction(0, 1))
        /\ \A f \in FacetId :
               FacetItems(f) = {} =>
                   /\ ValueOf(summary.facets, f).den # 0
                   /\ SameValue(ValueOf(summary.facets, f), Fraction(0, 1))
        /\ \A k \in 1..Len(summary.domains) : summary.domains[k].value.den # 0
        /\ \A k \in 1..Len(summary.facets) : summary.facets[k].value.den # 0

C11_Witness ==
    /\ totalItems = 2
    /\ stage = "result"
    /\ result # Null
    /\ DomainItems("openness") = {}
    /\ FacetItems("trust") = {}
    /\ ValueOf(result.domains, "openness") = Fraction(0, 1)
    /\ ValueOf(result.facets, "trust") = Fraction(0, 1)
    /\ ValueOf(result.domains, "extraversion").num > 0

\* C13: for every rating r in 1..5, reverseScore(r) is 6 - r, lies in 1..5
\* again, and reversing twice gives r back; the same for every rating a
\* reverse-keyed item holds.
C13_ReverseInvolution ==
    /\ \A r \in 1..5 :
           /\ reverseScore(r) = 6 - r
           /\ reverseScore(r) \in 1..5
           /\ reverseScore(reverseScore(r)) = r
    /\ \A i \in Answered(1..totalItems) :
           LET r == Lookup(responses, questionnaireItems[i].number)
           IN  questionnaireItems[i].reverse =>
                   /\ r \in 1..5
                   /\ reverseScore(r) + r = 6
                   /\ reverseScore(reverseScore(r)) = r

C13_Witness ==
    /\ totalItems = 2
    /\ questionnaireItems[1].reverse
    /\ questionnaireItems[2].reverse
    /\ Lookup(responses, 1) = 1
    /\ Lookup(responses, 2) = 5
    /\ result # Null
    /\ ValueOf(result.domains, "extraversion") = Fraction(6, 2)

\* C14: the summary lists the 5 domains and the 15 facets, each exactly
\* once, in the order of the definition tables, whatever the scores and
\* the order of the items in the catalog.
C14_DefinitionOrder ==
    LET summary == result
    IN  summary # Null =>
            /\ Len(summary.domains) = 5
            /\ Len(summary.facets) = 15
            /\ \A k \in 1..Len(summary.domains) :
                   summary.domains[k].id = domainDefinitions[k]
            /\ \A k \in 1..Len(summary.facets) :
                   summary.facets[k].id = facetDefinitions[k]
            /\ \A d \in DomainId :
                   Cardinality({ k \in 1..Len(summary.domains) :
                                   summary.domains[k].id = d }) = 1
            /\ \A f \in FacetId :
                   Cardinality({ k \in 1..Len(summary.facets) :
                                   summary.facets[k].id = f }) = 1

\* a later category of the table outscores an earlier one
C14_Witness ==
    /\ totalItems = 2
    /\ result # Null
    /\ questionnaireItems[1].domainId = "agreeableness"
    /\ questionnaireItems[2].domainId = "extraversion"
    /\ ValueOf(result.domains, "agreeableness") = Fraction(5, 1)
    /\ ValueOf(result.domains, "extraversion") = Fraction(1, 1)

\* C15 as claimed: with an entry missing for some item of the catalog a
\* summary is still produced, the unanswered items skipped in the sums and
\* the sums divided by the full item counts.
C15_SummaryOfIncomplete ==
    LET summary == result
    IN  ~Complete =>
            /\ summary # Null
            /\ \A d \in DomainId :
                   DomainItems(d) # {} =>
                       SameValue(ValueOf(summary.domains, d),
                                 Fraction(SumEffective(Answered(DomainItems(d))),
                                          Cardinality(DomainItems(d))))

\* C15 as amended: with an entry missing for some item of the catalog no
\* summary is produced (result is null, the number of entries differs from
\* totalItems); the loop behind that test would skip the unanswered items
\* in the sums and divide by the full item counts.
C15_NoSummaryOfIncomplete ==
    ~Complete =>
        /\ ~allAnswered
        /\ result = Null
        /\ LET summary == ScoreSummary(questionnaireItems, responses)
           IN  /\ \A d \in DomainId :
                      DomainItems(d) # {} =>
                          SameValue(ValueOf(summary.domains, d),
                                    Fraction(SumEffective(Answered(DomainItems(d))),
                                             Cardinality(DomainItems(d))))
               /\ \A f \in FacetId :
                      FacetItems(f) # {} =>
                          SameValue(ValueOf(summary.facets, f),
                                    Fraction(SumEffective(Answered(FacetItems(f))),
                                             Cardinality(FacetItems(f))))

C15_Witness ==
    /\ totalItems = 2
    /\ stage = "question"
    /\ currentIndex = 1
    /\ Lookup(responses, 1) = 3
    /\ Lookup(responses, 2) = 0
    /\ result = Null
    /\ questionnaireItems[1].domainId = questionnaireItems[2].domainId
    /\ ValueOf(ScoreSummary(questionnaireItems, responses).domains,
               questionnaireItems[1].domainId) = Fraction(3, 2)

(***************************************************************************)
(* Invariants of the flow.                                                 *)
(***************************************************************************)
\* C16: the response set only holds catalog item numbers as keys and
\* ratings 1..5 as values, and with unique item numbers the number of its
\* entries equals totalItems exactly when every catalog item number has a
\* recorded rating.
C16_CountMeansComplete ==
    /\ DOMAIN responses \subseteq ItemNumbers
    /\ \A n \in DOMAIN responses : responses[n] \in 1..5
    /\ UniqueNumbers => (allAnswered <=> Complete)

C16_Witness ==
    /\ UniqueNumbers
    /\ totalItems = 3
    /\ questionnaireItems[1].number = 3
    /\ stage = "question"
    /\ currentIndex = 1
    /\ allAnswered
    /\ Complete

\* C17 as claimed: every item at a catalog index below the current index
\* has a recorded rating; the current index is at least 0 and, for a
\* non-empty catalog, below totalItems; at stage result it is totalItems - 1.
C17_PrefixAnswered ==
    /\ \A i \in 1..totalItems :
           i - 1 < currentIndex => Lookup(responses, questionnaireItems[i].number) # 0
    /\ 0 <= currentIndex
    /\ totalItems > 0 => currentIndex < totalItems
    /\ stage = "result" => currentIndex = totalItems - 1

\* C17 as amended: the same, with the index at stage result being
\* totalItems - 1 for a catalog with unique item numbers.
C17_PrefixAnsweredUnique ==
    /\ \A i \in 1..totalItems :
           i - 1 < currentIndex => Lookup(responses, questionnaireItems[i].number) # 0
    /\ 0 <= currentIndex
    /\ totalItems > 0 => currentIndex < totalItems
    /\ (UniqueNumbers /\ stage = "result") => currentIndex = totalItems - 1

\* in a second run, back one question from the last with every item rated
C17_Witness ==
    /\ UniqueNumbers
    /\ totalItems = 3
    /\ stage = "question"
    /\ currentIndex = 1
    /\ Complete
    /\ restarted

(***************************************************************************)
(* Loading the catalog.                                                    *)
(***************************************************************************)
DomainLabels == { domainLabels[i] : i \in 1..Len(domainLabels) }

FacetLabels == { facetLabels[i] : i \in 1..Len(facetLabels) }

\* some raw item has a domain or facet label that is not a fixed label
HasUnknownLabel ==
    \E i \in 1..Len(rawItems) :
        rawItems[i].domain \notin DomainLabels \/ rawItems[i].facet \notin FacetLabels

\* C12: once the load has run, it has failed exactly when some raw item has
\* a domain or facet label that is not one of the fixed labels (compared
\* case-sensitively); after a failure no catalog exists and the page never
\* starts; a catalog that was built holds only ids of the tables.
C12_UnknownLabelFails ==
    loadState # "pending" =>
        /\ loadState = "failed" <=> HasUnknownLabel
        /\ loadState = "failed" => (questionnaireItems = << >> /\ stage = "intro")
        /\ loadState = "loaded" =>
               \A i \in 1..totalItems :
                   /\ questionnaireItems[i].domainId \in DomainId
                   /\ questionnaireItems[i].facetId \in FacetId

(***************************************************************************)
(* Progress.                                                               *)
(***************************************************************************)
NonEmptyUnique == totalItems > 0 /\ UniqueNumbers

\* the control of the stage can be used
StageControlEnabled ==
    /\ stage = "intro" => ENABLED handleStart
    /\ stage = "question" => \A rating \in Rating : ENABLED handleSelect(rating)
    /\ stage = "result" => ENABLED handleRestart

\* C18: for a non-empty catalog with unique item numbers, in every state
\* the control of the stage can be used (start in intro, select in a
\* question, restart in result) and result is only reached after
\* totalItems next steps that moved on since the last start; and when an
\* unanswered question shown always gets a rating, a usable next always
\* gets taken and previous moves back only finitely often, every run at a
\* question reaches result.
C18_Progress ==
    NonEmptyUnique =>
        /\ [](StageControlEnabled /\ (stage = "result" => nextCount >= totalItems))
        /\ ([]<><<handlePrevious>>_vars) \/ (stage = "question" ~> stage = "result")

\* a run has reached result over every question of a catalog of two
C18_Witness ==
    /\ NonEmptyUnique
    /\ totalItems = 2
    /\ questionnaireItems[1].number = 3
    /\ stage = "result"
    /\ nextCount = 2
    /\ ENABLED handleRestart
====
